---- MODULE Spec2Model ----
(***************************************************************************)
(* NodeQuizPro: the exam submission and scoring flow.                      *)
(*                                                                         *)
(* Server side: the relational store (questions, submissions, answers)     *)
(* and the handler of POST /api/exams/:examId/submit, one step per awaited *)
(* storage call, so that concurrent requests interleave exactly at the     *)
(* handler's suspension points; PUT /api/questions/:id of the teacher.     *)
(*                                                                         *)
(* Client side: the countdown of the exam-taking page (ExamTaking), one    *)
(* step per event (query result, timer callback, user action, unmount),    *)
(* each followed by the renders and effects it causes.                     *)
(***************************************************************************)
EXTENDS Integers, Sequences, FiniteSets, TLC

(* ------------------------------ bounds --------------------------------- *)

\* submit requests issued in one behaviour
MaxRequests == 2
\* submit requests issued in one behaviour that also has question updates
MaxRequestsEdit == 1
\* entries of all the lists submitted in one behaviour: a list is at most this
\* long, and the answers table holds at most this many rows
MaxEntries == 3
\* question updates by the teacher in one behaviour
MaxUpdates == 1

\* submit requests and entries, in the specification with the reads
MaxRequestsClass == 1

MaxEntriesClass == 2

\* submit requests and entries, in the specifications with two classmates
MaxRequestsPair == 2

MaxEntriesPair == 3

\* submit requests and entries, in the specification with the exam's period
MaxRequestsAnytime == 1

MaxEntriesAnytime == 2

\* the last time point an exam period can name
MaxTime == 10

\* submit requests and entries, in the specification with reads of answers
MaxRequestsAnswers == 1

MaxEntriesAnswers == 2

\* submit requests the Submit button and the confirm dialog may send
MaxSent == 2

\* the exam's end time in the specification of the submitting page
MaxEndSubmitting == 2

\* question create / update / delete requests, in the specification of those
MaxQuestionRequests == 3
\* entries of all the lists submitted in one behaviour that also has question
\* updates
MaxEntriesEdit == 2
\* submit requests issued in one behaviour that follows a race through to a
\* later request
MaxRequestsLater == 3

\* latest exam end time, in clock units
MaxEndTime == 7
\* the page's clock stops here
MaxClock == 12
\* how late a timer callback can run, in clock units
MaxLate == 1
\* clock units in one second (the code's clock has 1000)
UnitsPerSecond == 2

\* handler contexts that can be in flight at the same time
Slots == {1, 2}

(* --------------------------- fixed tables ------------------------------ *)

\* SQL NULL of a nullable integer / timestamp column
NULL == 0 - 1

\* req.isAuthenticated() is false: no req.user
Anonymous == 0

Users ==
    (1 :> [role |-> "teacher", class |-> "none"]) @@
    (2 :> [role |-> "student", class |-> "10A1"]) @@
    (3 :> [role |-> "student", class |-> "10A2"]) @@
    (4 :> [role |-> "teacher", class |-> "none"]) @@
    (5 :> [role |-> "student", class |-> "10A1"])

\* callers of the specifications with one student of the exam's class
Callers == {Anonymous} \cup (DOMAIN Users \ {5})

\* callers of the specifications with two students of the exam's class
Classmates == {2, 5}

Exams ==
    (1 :> [class |-> "10A1", createdById |-> 1]) @@
    (3 :> [class |-> "10A2", createdById |-> 4])

\* exam ids a request path can carry: an exam that exists, one that does not
ExamIds == {1, 2}

Labels == {"A", "B"}

\* question ids a batch entry can carry; 3 is no question of any exam
QuestionIds == {1, 2, 3}

InitQuestions ==
    (1 :> [examId |-> 1, correctAnswer |-> "A", points |-> 1]) @@
    (2 :> [examId |-> 1, correctAnswer |-> "B", points |-> 2])

\* what a batch entry can be: a correct answer to question 1, a wrong answer
\* to question 2, an answer to a question the exam does not have
Entries == [questionId : QuestionIds, answer : {"A"}]

RECURSIVE SeqsUpTo(_, _)
SeqsUpTo(S, n) ==
    IF n = 0 THEN {<<>>}
    ELSE LET shorter == SeqsUpTo(S, n - 1)
         IN  shorter \cup {Append(s, e) : s \in {t \in shorter : Len(t) = n - 1}, e \in S}

\* req.body.answers is missing or not a list, is [], or is a non-empty list
Shapes == {"notAList", "empty", "list"}

\* the non-empty lists
Batches == SeqsUpTo(Entries, MaxEntries) \ {<<>>}

(* ------------------------------ state ---------------------------------- *)

VARIABLES
    questions,     \* questions table: id -> row
    submissions,   \* submissions table: sequence of rows, id = position (serial)
    answers,       \* answers table: sequence of rows, id = position (serial)
    req,           \* per handler context: the handler's locals and its position
    now,           \* value the next `new Date()` returns
    started,       \* submit requests issued so far
    entries,       \* entries of the lists read so far
    maxStarted,    \* submit requests this behaviour may issue
    maxEntries,    \* entries this behaviour may submit
    updates,       \* question requests this behaviour may still issue
    questionSeq,   \* last value of the questions id sequence (serial)
    lastRead       \* the last GET request for an exam or its questions, with its response

serverVars ==
    <<questions, submissions, answers, req, now, started, entries, maxStarted, maxEntries, updates,
      questionSeq, lastRead>>

VARIABLES
    page,          \* "none": no exam page; "mounted"; "unmounted"
    clock,         \* the browser's Date, in units of half a second
    examStart,     \* exam.startTime
    examEnd,       \* exam.endTime
    exam,          \* the exam query has data
    timeRemaining, \* useState<number | null>: seconds, or NULL
    intervalRef,   \* intervalRef.current is an active interval
    showTimeUpDialog,
    n0,            \* history: the value the countdown was first set to, or NULL
    ticks,         \* history: timer callbacks run
    fired          \* history: times the callback raised the time-up dialog

clientVars ==
    <<page, clock, examStart, examEnd, exam, timeRemaining, intervalRef,
      showTimeUpDialog, n0, ticks, fired>>

VARIABLES
    questionsLoaded,              \* the questions query has data
    currentQuestionIndex, \* useState(0): 0-based position in the question list
    userAnswers,          \* useState<Record<number, string>>: question id -> label
    flaggedQuestions,     \* useState<number[]>: flagged positions
    submissionState,      \* 'idle' | 'submitting' | 'success' | 'error'
    showSubmitDialog,
    sent,                 \* history: submitExamMutation.mutate calls
    last                  \* history: the last answer-store handler run and the state it ran in

storeVars ==
    <<questionsLoaded, currentQuestionIndex, userAnswers, flaggedQuestions, submissionState,
      showSubmitDialog, sent, last>>

VARIABLES
    examStatus,    \* exams.status of exam 1
    intervals,     \* the window's active intervals set by the exam page
    accounts,      \* users rows of the registration flow: username -> row
    lastCreated,   \* the last POST /api/users/students, with its status
    lastLogin,     \* the last POST /api/login, with its status
    pending,       \* submit requests the page has sent that have no response yet
    batch,         \* formattedAnswers of the last submitExamMutation.mutate
    redirect       \* the timeout that navigates to the results page is set

userVars == <<accounts, lastCreated, lastLogin>>

mutationVars == <<pending, batch, redirect>>

\* all of them but intervals
restVars == <<examStatus, userVars, mutationVars>>

moreVars == <<intervals, restVars>>

vars == <<serverVars, questionSeq, lastRead, clientVars, storeVars, moreVars>>

NoSub == [id |-> 0, status |-> "none"]

NoRes == [status |-> 0, message |-> "none"]

IdleReq ==
    [pc |-> "idle", caller |-> Anonymous, examId |-> 0, shape |-> "notAList",
     studentSubmission |-> NoSub, questions |-> <<>>, rest |-> <<>>,
     submission |-> 0, score |-> 0, res |-> NoRes,
     unknownId |-> FALSE, laterThanCompleted |-> FALSE,
     items |-> <<>>, written |-> <<>>, body |-> <<>>]

\* no exam page is open
NoPage ==
    /\ page = "none"
    /\ clock = 0
    /\ examStart = 0
    /\ examEnd = 0
    /\ exam = FALSE
    /\ timeRemaining = NULL
    /\ intervalRef = FALSE
    /\ showTimeUpDialog = FALSE
    /\ n0 = NULL
    /\ ticks = 0
    /\ fired = 0

NoOp == [op |-> "none", index |-> 0, answer |-> "none", userAnswers |-> <<>>, flaggedQuestions |-> <<>>]

\* the initial state of the answer store (the useState initial values)
NoStore ==
    /\ questionsLoaded = FALSE
    /\ currentQuestionIndex = 0
    /\ userAnswers = <<>>
    /\ flaggedQuestions = <<>>
    /\ submissionState = "idle"
    /\ showSubmitDialog = FALSE
    /\ sent = 0
    /\ last = NoOp

\* a password column that holds the text as it was given
PlainText(text) == [form |-> "text", of |-> text, salt |-> "none"]

\* hashPassword: `${scrypt(password, salt).toString("hex")}.${salt}`; `of` is
\* the password whose scrypt with the salt the hex part is
hashPassword(password, salt) == [form |-> "hex.salt", of |-> password, salt |-> salt]

\* the stored password of a teacher registered through /api/register/teacher
\* with password "secret"
TeacherPassword == hashPassword("secret", "s1")

NoCreate == [caller |-> Anonymous, username |-> "none", status |-> 0]

NoLogin == [username |-> "none", password |-> "none", status |-> 0]

\* the users table has the teacher's account; no request of the registration
\* flow has been sent
NoUsers ==
    /\ accounts = ("teacher" :> [studentId |-> "none", password |-> TeacherPassword,
                                 role |-> "teacher", defaulted |-> FALSE])
    /\ lastCreated = NoCreate
    /\ lastLogin = NoLogin

\* the browser has nothing of the exam page
NoBrowser ==
    /\ intervals = 0
    /\ NoUsers
    /\ pending = 0
    /\ batch = <<>>
    /\ redirect = FALSE

\* the exam row is active
NoMore ==
    /\ examStatus = "active"
    /\ NoBrowser

NoRead ==
    [kind |-> "none", caller |-> Anonymous, examId |-> 0, submissionId |-> 0,
     status |-> 0, body |-> <<>>]

\* no request has reached the server
EmptyStore(n, e, u) ==
    /\ questions = InitQuestions
    /\ submissions = <<>>
    /\ answers = <<>>
    /\ req = [r \in Slots |-> IdleReq]
    /\ now = 1
    /\ started = 0
    /\ entries = 0
    /\ maxStarted = n
    /\ maxEntries = e
    /\ updates = u
    /\ questionSeq = 2
    /\ lastRead = NoRead

ServerInit(n, e, u) == EmptyStore(n, e, u) /\ NoPage /\ NoStore /\ NoMore

(* ------------------------ storage (storage.ts) ------------------------- *)

\* only an exam that is active and within its period is found
HasOpenExam(examId) ==
    /\ examId \in DOMAIN Exams
    /\ examStatus = "active"
    /\ examStart <= now
    /\ now <= examEnd

\* storage.getExam: the row, if any
HasExam(examId) == examId \in DOMAIN Exams

\* storage.getSubmissionsByExam: ids of the rows of this exam
getSubmissionsByExam(examId) ==
    {s \in DOMAIN submissions : submissions[s].examId = examId}

\* storage.getQuestionsByExam: the rows of this exam, by id
getQuestionsByExam(examId) ==
    LET ids == {q \in DOMAIN questions : questions[q].examId = examId}
    IN  [q \in ids |-> questions[q]]

\* storage.createSubmission: insert, endTime and score stay NULL
createSubmission(examId, userId, startTime, status) ==
    Append(submissions,
           [examId |-> examId, userId |-> userId, startTime |-> startTime,
            endTime |-> NULL, score |-> NULL, status |-> status])

\* only the status column is written
updateSubmissionStatusOnly(id, endTime, score, status) ==
    [submissions EXCEPT ![id] = [@ EXCEPT !.status = status]]

\* storage.updateSubmission: UPDATE ... SET endTime, score, status WHERE id
updateSubmission(id, endTime, score, status) ==
    [submissions EXCEPT ![id] =
        [@ EXCEPT !.endTime = endTime, !.score = score, !.status = status]]

\* an upsert by question: a row of the same question is overwritten
saveAnswerReplacing(submissionId, questionId, answer, isCorrect) ==
    LET row == [submissionId |-> submissionId, questionId |-> questionId,
                answer |-> answer, isCorrect |-> isCorrect]
        same == {k \in DOMAIN answers : answers[k].questionId = questionId}
    IN  IF same = {}
        THEN Append(answers, row)
        ELSE [k \in DOMAIN answers |-> IF k \in same THEN row ELSE answers[k]]

\* storage.saveAnswer: plain insert, the table has no uniqueness constraint
saveAnswer(submissionId, questionId, answer, isCorrect) ==
    Append(answers,
           [submissionId |-> submissionId, questionId |-> questionId,
            answer |-> answer, isCorrect |-> isCorrect])

\* storage.updateQuestion: UPDATE questions SET data WHERE id; data is the
\* request body, whose columns here are exam_id, correct_answer and points
updateQuestion(id, examId, correctAnswer, points) ==
    [questions EXCEPT ![id] =
        [examId |-> examId, correctAnswer |-> correctAnswer, points |-> points]]

\* storage.getQuestion: the row, if any
HasQuestion(id) == id \in DOMAIN questions

\* storage.createQuestion: insert with the next id of the sequence
createQuestion(id, examId, correctAnswer, points) ==
    (id :> [examId |-> examId, correctAnswer |-> correctAnswer, points |-> points]) @@ questions

\* storage.deleteQuestion: DELETE FROM questions WHERE id
deleteQuestion(id) == [q \in DOMAIN questions \ {id} |-> questions[q]]

(* --------------- POST /api/exams/:examId/submit (routes.ts) ------------ *)

\* res.status(code).json({message}) and return: the handler's locals are gone,
\* the response stays with the client, next to what it had sent
Respond(h, status, message) ==
    [IdleReq EXCEPT !.pc = "done", !.res = [status |-> status, message |-> message],
                    !.caller = h.caller, !.examId = h.examId, !.shape = h.shape]

\* the role check left out: only the session is checked
NotStudentSessionOnly(caller) == caller = Anonymous

\* !req.isAuthenticated() || req.user?.role !== 'student'
NotStudent(caller) ==
    \/ caller = Anonymous
    \/ Users[caller].role # "student"

\* the class is not compared
WrongClassNever(examId, caller) == FALSE

\* exam.class !== req.user.class
WrongClass(examId, caller) == Exams[examId].class # Users[caller].class

\* the student is not compared: any row of the exam matches
StudentSubmissionsOfAnyone(rows, userId) == rows

\* the rows submissions.find(s => s.userId === req.user.id) can return
StudentSubmissions(rows, userId) ==
    {s \in rows : submissions[s].userId = userId}

\* studentSubmission && studentSubmission.status === 'completed'
AlreadyCompleted(studentSubmission) ==
    /\ studentSubmission # NoSub
    /\ studentSubmission.status = "completed"

\* the length check left out: only Array.isArray is checked
NoAnswersNotAListOnly(shape) == shape = "notAList"

\* !Array.isArray(answers) || answers.length === 0
NoAnswers(shape) ==
    \/ shape = "notAList"
    \/ shape = "empty"

\* questions.find(q => q.id === questionId) finds nothing
QuestionNotFound(qs, questionId) == questionId \notin DOMAIN qs

\* the comparison left out: any given answer counts as correct
IsCorrectWhenAnswered(question, answerData) == answerData.answer \in Labels

\* question.correctAnswer === answerData.answer
IsCorrect(question, answerData) == question.correctAnswer = answerData.answer

\* score += question.points, if correct
AddPoints(score, question, isCorrect) ==
    IF isCorrect THEN score + question.points ELSE score

\* the iterator yields the last entry where it should yield the first
NextEntryFromEnd(rest) == rest[Len(rest)]

\* what `for (const answerData of answers)` yields next: the first entry not
\* yet yielded
NextEntry(rest) == Head(rest)

\* `continue` in place of the 400: entries naming no loaded question are skipped
GradeNextSkippingUnknown(h) ==
    LET known == SelectSeq(h.rest, LAMBDA e : ~QuestionNotFound(h.questions, e.questionId))
    IN  IF known = <<>>
        THEN [h EXCEPT !.rest = <<>>, !.pc = "updateSubmission"]
        ELSE [h EXCEPT !.rest = known, !.pc = "saveAnswer"]

\* The synchronous head of `for (const answerData of answers)`, run after the
\* await that set h; h.rest is what the iterator has not yet yielded. The loop
\* ends (next await: updateSubmission), the next entry names no question of
\* the loaded list (400, return), or the next await is saveAnswer.
GradeNext(h) ==
    IF h.rest = <<>>
    THEN [h EXCEPT !.pc = "updateSubmission"]
    ELSE IF QuestionNotFound(h.questions, NextEntry(h.rest).questionId)
         THEN Respond(h, 400, "Question not found")
         ELSE [h EXCEPT !.pc = "saveAnswer"]

\* some row of (exam, student) is completed: the request comes after it
CompletedExists(examId, userId) ==
    \E s \in DOMAIN submissions :
        /\ submissions[s].examId = examId
        /\ submissions[s].userId = userId
        /\ submissions[s].status = "completed"

\* A client sends the request; it takes the first free handler context. The
\* entries of a non-empty list are bound where the handler first reads them.
\* laterThanCompleted is history: the request was sent after a row of
\* (exam, caller) was completed.
Start(r, caller, examId, shape) ==
    /\ req[r].pc \in {"idle", "done"}
    /\ \A r2 \in Slots : r2 < r => req[r2].pc \notin {"idle", "done"}
    /\ started < maxStarted
    /\ started' = started + 1
    /\ req' = [req EXCEPT ![r] =
                  [IdleReq EXCEPT !.pc = "authorize", !.caller = caller,
                                  !.examId = examId, !.shape = shape,
                                  !.laterThanCompleted =
                                      /\ caller # Anonymous
                                      /\ CompletedExists(examId, caller)]]
    /\ UNCHANGED <<questions, submissions, answers, now, entries, maxStarted, maxEntries, updates, questionSeq, lastRead, clientVars, storeVars, moreVars>>

\* The handler starts: the role check, before the first await; 403 if it fails
Authorize(r) ==
    /\ req[r].pc = "authorize"
    /\ LET h == req[r]
       IN  req' = [req EXCEPT ![r] =
                      IF NotStudent(h.caller)
                      THEN Respond(h, 403, "Access denied")
                      ELSE [h EXCEPT !.pc = "getExam"]]
    /\ UNCHANGED <<questions, submissions, answers, now, started, entries, maxStarted, maxEntries, updates, questionSeq, lastRead, clientVars, storeVars, moreVars>>

\* await storage.getExam; 404 if missing, 403 if of another class
GetExam(r) ==
    /\ req[r].pc = "getExam"
    /\ LET h == req[r]
       IN  req' = [req EXCEPT ![r] =
                      IF ~HasExam(h.examId)
                      THEN Respond(h, 404, "Exam not found")
                      ELSE IF WrongClass(h.examId, h.caller)
                           THEN Respond(h, 403, "Access denied")
                           ELSE [h EXCEPT !.pc = "getSubmissionsByExam"]]
    /\ UNCHANGED <<questions, submissions, answers, now, started, entries, maxStarted, maxEntries, updates, questionSeq, lastRead, clientVars, storeVars, moreVars>>

\* await storage.getSubmissionsByExam; find the caller's row; 400 if completed.
\* The query has no ORDER BY: which of several rows of the caller comes first
\* is the database's choice.
GetSubmissionsByExam(r) ==
    /\ req[r].pc = "getSubmissionsByExam"
    /\ LET h == req[r]
           mine == StudentSubmissions(getSubmissionsByExam(h.examId), h.caller)
       IN  \E found \in IF mine = {} THEN {NoSub}
                        ELSE {[id |-> s, status |-> submissions[s].status] : s \in mine} :
              req' = [req EXCEPT ![r] =
                         IF AlreadyCompleted(found)
                         THEN Respond([h EXCEPT !.studentSubmission = found],
                                      400, "Exam already submitted")
                         ELSE [h EXCEPT !.studentSubmission = found,
                                        !.pc = "getQuestionsByExam"]]
    /\ UNCHANGED <<questions, submissions, answers, now, started, entries, maxStarted, maxEntries, updates, questionSeq, lastRead, clientVars, storeVars, moreVars>>

\* await storage.getQuestionsByExam; then `const answers = req.body.answers`,
\* the handler's first read of the list (its entries are bound here: nothing
\* before this line depends on them); 400 if there are no answers; reuse the
\* in-progress row or go on to create one. unknownId is history: the list
\* names a question the loaded list does not have.
GetQuestionsByExam(r, items) ==
    /\ req[r].pc = "getQuestionsByExam"
    /\ req[r].shape = "list" <=> items # <<>>
    /\ entries + Len(items) <= maxEntries
    /\ entries' = entries + Len(items)
    /\ LET qs == getQuestionsByExam(req[r].examId)
           h == [req[r] EXCEPT !.questions = qs, !.rest = items, !.items = items,
                               !.unknownId =
                                   \E k \in DOMAIN items : items[k].questionId \notin DOMAIN qs]
       IN  req' = [req EXCEPT ![r] =
                      IF NoAnswers(h.shape)
                      THEN Respond(h, 400, "No answers provided")
                      ELSE IF h.studentSubmission = NoSub
                           THEN [h EXCEPT !.pc = "createSubmission"]
                           ELSE GradeNext([h EXCEPT !.submission = h.studentSubmission.id,
                                                    !.score = 0])]
    /\ UNCHANGED <<questions, submissions, answers, now, started, maxStarted, maxEntries, updates, questionSeq, lastRead, clientVars, storeVars, moreVars>>

\* await storage.createSubmission({examId, userId, startTime: new Date(), 'in_progress'})
CreateSubmission(r) ==
    /\ req[r].pc = "createSubmission"
    /\ LET h == req[r]
       IN  /\ submissions' = createSubmission(h.examId, h.caller, now, "in_progress")
           /\ req' = [req EXCEPT ![r] =
                         GradeNext([h EXCEPT !.submission = Len(submissions) + 1,
                                             !.score = 0])]
    /\ now' = now + 1
    /\ UNCHANGED <<questions, answers, started, entries, maxStarted, maxEntries, updates, questionSeq, lastRead, clientVars, storeVars, moreVars>>

\* await storage.saveAnswer for the entry at hand, graded against the loaded questions
SaveAnswer(r) ==
    /\ req[r].pc = "saveAnswer"
    /\ LET h == req[r]
           answerData == NextEntry(h.rest)
           question == h.questions[answerData.questionId]
           isCorrect == IsCorrect(question, answerData)
       IN  /\ answers' = saveAnswer(h.submission, answerData.questionId,
                                    answerData.answer, isCorrect)
           /\ req' = [req EXCEPT ![r] =
                         GradeNext([h EXCEPT !.score = AddPoints(h.score, question, isCorrect),
                                             !.rest = Tail(h.rest),
                                             !.written = Append(h.written, Len(answers'))])]
    /\ UNCHANGED <<questions, submissions, now, started, entries, maxStarted, maxEntries, updates, questionSeq, lastRead, clientVars, storeVars, moreVars>>

\* await storage.updateSubmission(id, {endTime: new Date(), score, 'completed'})
UpdateSubmission(r) ==
    /\ req[r].pc = "updateSubmission"
    /\ LET h == req[r]
       IN  /\ submissions' = updateSubmission(h.submission, now, h.score, "completed")
           /\ req' = [req EXCEPT ![r] =
                         [Respond(h, 200, "updatedSubmission") EXCEPT
                              !.body = <<submissions'[h.submission]>>]]
    /\ now' = now + 1
    /\ UNCHANGED <<questions, answers, started, entries, maxStarted, maxEntries, updates, questionSeq, lastRead, clientVars, storeVars, moreVars>>

(* ------------------ PUT /api/questions/:id (routes.ts) ----------------- *)

\* exam.createdById !== req.user.id
NotOwner(examId, caller) == Exams[examId].createdById # caller

\* !req.isAuthenticated() || req.user?.role !== 'teacher'
NotTeacher(caller) ==
    \/ caller = Anonymous
    \/ Users[caller].role # "teacher"

\* PUT /api/questions/:id. A teacher who created the question's exam rewrites
\* the row with the columns of the request body; any other request is answered
\* 403 or 404 and writes nothing.
UpdateQuestion(caller, id, examId, correctAnswer, points) ==
    /\ updates > 0
    /\ ~NotTeacher(caller)
    /\ HasQuestion(id)
    /\ HasExam(questions[id].examId)
    /\ ~NotOwner(questions[id].examId, caller)
    /\ HasExam(examId)
    /\ questions' = updateQuestion(id, examId, correctAnswer, points)
    /\ questions' # questions
    /\ updates' = updates - 1
    /\ UNCHANGED <<submissions, answers, req, now, started, entries, maxStarted, maxEntries, questionSeq, lastRead, clientVars, storeVars, moreVars>>

\* POST /api/exams/:examId/questions. The exam id of the new row is the one of
\* the path, whatever the body carries.
CreateQuestion(caller, examId, correctAnswer, points) ==
    /\ updates > 0
    /\ ~NotTeacher(caller)
    /\ HasExam(examId)
    /\ ~NotOwner(examId, caller)
    /\ questionSeq' = questionSeq + 1
    /\ questions' = createQuestion(questionSeq', examId, correctAnswer, points)
    /\ updates' = updates - 1
    /\ UNCHANGED <<submissions, answers, req, now, started, entries, maxStarted, maxEntries, lastRead, clientVars, storeVars, moreVars>>

\* DELETE /api/questions/:id. A question an answer row refers to cannot be
\* deleted (foreign key): the handler then answers 500.
DeleteQuestion(caller, id) ==
    /\ updates > 0
    /\ ~NotTeacher(caller)
    /\ HasQuestion(id)
    /\ HasExam(questions[id].examId)
    /\ ~NotOwner(questions[id].examId, caller)
    /\ \A a \in DOMAIN answers : answers[a].questionId # id
    /\ questions' = deleteQuestion(id)
    /\ updates' = updates - 1
    /\ UNCHANGED <<submissions, answers, req, now, started, entries, maxStarted, maxEntries, questionSeq, lastRead, clientVars, storeVars, moreVars>>

(* ------- GET /api/exams/:id, GET /api/exams/:examId/questions ---------- *)

\* req.user?.role === 'student' && exam.class !== req.user.class
StudentOfOtherClass(examId, caller) ==
    /\ Users[caller].role = "student"
    /\ WrongClass(examId, caller)

\* status of a read: 401 without a session, 404 without the exam, 403 for a
\* student of another class, else 200
ReadStatus(caller, examId) ==
    IF caller = Anonymous THEN 401
    ELSE IF ~HasExam(examId) THEN 404
    ELSE IF StudentOfOtherClass(examId, caller) THEN 403
    ELSE 200

\* GET /api/exams/:id: the exam row in the body of a 200. A read changes no
\* table, so one read per behaviour, at any point of it, shows every response.
ReadExam(caller, examId) ==
    /\ lastRead = NoRead
    /\ LET status == ReadStatus(caller, examId)
       IN  lastRead' = [kind |-> "exam", caller |-> caller, examId |-> examId, submissionId |-> 0,
                        status |-> status,
                        body |-> IF status = 200 THEN <<Exams[examId]>> ELSE <<>>]
    /\ UNCHANGED <<questions, submissions, answers, req, now, started, entries, maxStarted,
                   maxEntries, updates, questionSeq, clientVars, storeVars, moreVars>>

\* GET /api/exams/:examId/questions: the exam's question rows in the body of a 200
ReadQuestions(caller, examId) ==
    /\ lastRead = NoRead
    /\ LET status == ReadStatus(caller, examId)
       IN  lastRead' = [kind |-> "questions", caller |-> caller, examId |-> examId, submissionId |-> 0,
                        status |-> status,
                        body |-> IF status = 200 THEN getQuestionsByExam(examId) ELSE <<>>]
    /\ UNCHANGED <<questions, submissions, answers, req, now, started, entries, maxStarted,
                   maxEntries, updates, questionSeq, clientVars, storeVars, moreVars>>

(* ------------- GET /api/submissions/:id/answers (routes.ts) ------------ *)

\* storage.getSubmission: the row, if any
HasSubmission(id) == id \in DOMAIN submissions

\* the student is not compared
NotOwnSubmissionNever(id, caller) == FALSE

\* req.user?.role === 'student' && submission.userId !== req.user.id
NotOwnSubmission(id, caller) ==
    /\ Users[caller].role = "student"
    /\ submissions[id].userId # caller

\* req.user?.role === 'teacher' && (!exam || exam.createdById !== req.user.id)
NotOwnExam(id, caller) ==
    /\ Users[caller].role = "teacher"
    /\ \/ ~HasExam(submissions[id].examId)
       \/ NotOwner(submissions[id].examId, caller)

\* status of the read: 401 without a session, 404 without the submission, 403
\* for a student who is not its student and for a teacher who did not create
\* its exam, else 200
AnswersStatus(caller, id) ==
    IF caller = Anonymous THEN 401
    ELSE IF ~HasSubmission(id) THEN 404
    ELSE IF NotOwnSubmission(id, caller) THEN 403
    ELSE IF NotOwnExam(id, caller) THEN 403
    ELSE 200

\* storage.getAnswersBySubmission, each row with the row of its question
getAnswersBySubmission(id) ==
    LET rows == SelectSeq(answers, LAMBDA row : row.submissionId = id)
    IN  [k \in DOMAIN rows |->
            [answer |-> rows[k],
             question |-> IF HasQuestion(rows[k].questionId)
                          THEN <<questions[rows[k].questionId]>> ELSE <<>>]]

\* GET /api/submissions/:id/answers: the answers of the submission in the body of a 200
ReadAnswers(caller, id) ==
    /\ lastRead = NoRead
    /\ LET status == AnswersStatus(caller, id)
       IN  lastRead' = [kind |-> "answers", caller |-> caller, examId |-> 0,
                        submissionId |-> id, status |-> status,
                        body |-> IF status = 200 THEN getAnswersBySubmission(id) ELSE <<>>]
    /\ UNCHANGED <<questions, submissions, answers, req, now, started, entries, maxStarted,
                   maxEntries, updates, questionSeq, clientVars, storeVars, moreVars>>

(* ------- POST /api/users/students (routes.ts), login (auth.ts) --------- *)

\* usernames, student ids and passwords of the requests
Usernames == {"an", "binh"}

StudentIds == {"S1", "S2"}

Passwords == StudentIds \cup {"secret"}

\* req.body.password: absent, the empty string, or a password
BodyPasswords == {<<>>, <<"">>} \cup {<<password>> : password \in Passwords}

\* comparePasswords: stored.split("."), scrypt of the supplied password with
\* the salt part, timingSafeEqual with the hex part. A text of at most 20
\* characters is no `hex.salt`: without a dot the salt is undefined and scrypt
\* throws, with a dot the hex part is not 64 bytes and timingSafeEqual throws.
\* For a `hex.salt` the buffers are equal when the supplied password is the
\* hashed one.
comparePasswords(supplied, stored) ==
    IF stored.form # "hex.salt" THEN "throws"
    ELSE IF supplied = stored.of THEN "equal"
    ELSE "different"

\* studentData.password || studentData.studentId
PasswordOrStudentId(password, studentId) ==
    IF password = <<"">> THEN studentId ELSE password[1]

\* status of POST /api/users/students: 403 unless a teacher calls, 400 if the
\* body fails registerStudentSchema (password is a required string) or the
\* username exists, 500 if the insert throws (student_id is unique), else 201
CreateStatus(caller, username, studentId, password) ==
    IF NotTeacher(caller) THEN 403
    ELSE IF password = <<>> THEN 400
    ELSE IF username \in DOMAIN accounts THEN 400
    ELSE IF \E u \in DOMAIN accounts : accounts[u].studentId = studentId THEN 500
    ELSE 201

\* POST /api/users/students. defaulted is history: the body's password was empty.
CreateStudent(caller, username, studentId, password) ==
    /\ lastCreated' = [caller |-> caller, username |-> username,
                       status |-> CreateStatus(caller, username, studentId, password)]
    /\ accounts' =
           IF lastCreated'.status = 201
           THEN (username :> [studentId |-> studentId,
                              password |-> PlainText(PasswordOrStudentId(password, studentId)),
                              role |-> "student",
                              defaulted |-> password = <<"">>]) @@ accounts
           ELSE accounts
    /\ lastCreated' # lastCreated
    /\ UNCHANGED <<serverVars, clientVars, storeVars, examStatus, intervals, lastLogin, mutationVars>>

\* the LocalStrategy's verify and the login endpoint: 401 without the user or
\* when the passwords differ, the error handler's 500 when the comparison
\* throws, else 200
LoginStatus(username, password) ==
    IF username \notin DOMAIN accounts THEN 401
    ELSE LET compared == comparePasswords(password, accounts[username].password)
         IN  IF compared = "throws" THEN 500
             ELSE IF compared = "different" THEN 401
             ELSE 200

\* POST /api/login
Login(username, password) ==
    /\ lastLogin' = [username |-> username, password |-> password,
                     status |-> LoginStatus(username, password)]
    /\ lastLogin' # lastLogin
    /\ UNCHANGED <<serverVars, clientVars, storeVars, examStatus, intervals, accounts, lastCreated,
                   mutationVars>>

InitAccounts == ServerInit(0, 0, 0)

NextAccounts ==
    \/ \E caller \in Callers, username \in Usernames, studentId \in StudentIds,
          password \in BodyPasswords :
           CreateStudent(caller, username, studentId, password)
    \/ \E username \in Usernames \cup {"teacher"}, password \in Passwords :
           Login(username, password)

\* teachers' requests to create students, and logins
SpecAccounts == InitAccounts /\ [][NextAccounts]_vars

(* --------------------------- specifications ---------------------------- *)

Submit ==
    \/ \E r \in Slots, caller \in Callers, examId \in ExamIds, shape \in Shapes :
           Start(r, caller, examId, shape)
    \/ \E r \in Slots : Authorize(r)
    \/ \E r \in Slots : GetExam(r)
    \/ \E r \in Slots : GetSubmissionsByExam(r)
    \/ \E r \in Slots, items \in Batches \cup {<<>>} : GetQuestionsByExam(r, items)
    \/ \E r \in Slots : CreateSubmission(r)
    \/ \E r \in Slots : SaveAnswer(r)
    \/ \E r \in Slots : UpdateSubmission(r)

\* point values a question update can carry
PointValues == {1, 2}

\* one update rewrites one column
Edit ==
    \E caller \in Callers, id \in DOMAIN questions,
       correctAnswer \in Labels, points \in PointValues :
        /\ correctAnswer = questions[id].correctAnswer \/ points = questions[id].points
        /\ UpdateQuestion(caller, id, questions[id].examId, correctAnswer, points)

Init == ServerInit(MaxRequests, MaxEntries, 0)

Next == Submit

\* submit requests only
Spec == Init /\ [][Next]_vars

InitEdit == ServerInit(MaxRequestsEdit, MaxEntriesEdit, MaxUpdates)

NextEdit == Submit \/ Edit

\* submit requests interleaved with the teacher's question updates
SpecEdit == InitEdit /\ [][NextEdit]_vars

InitLater == ServerInit(MaxRequestsLater, MaxEntries, 0)

\* submit requests only, one more of them
SpecLater == InitLater /\ [][Next]_vars

\* the steps of a submit request after its start
SubmitSteps ==
    \/ \E r \in Slots : Authorize(r)
    \/ \E r \in Slots : GetExam(r)
    \/ \E r \in Slots : GetSubmissionsByExam(r)
    \/ \E r \in Slots, items \in Batches \cup {<<>>} : GetQuestionsByExam(r, items)
    \/ \E r \in Slots : CreateSubmission(r)
    \/ \E r \in Slots : SaveAnswer(r)
    \/ \E r \in Slots : UpdateSubmission(r)

InitPair == ServerInit(MaxRequestsPair, MaxEntriesPair, 0)

NextPair ==
    \/ \E r \in Slots, caller \in Classmates, shape \in Shapes : Start(r, caller, 1, shape)
    \/ SubmitSteps

\* submit requests of two students of the exam's class, interleaved
SpecPair == InitPair /\ [][NextPair]_vars

\* exam_status
ExamStatuses == {"upcoming", "active", "completed", "draft"}

\* start_time and end_time of the exam row: over before the first request
\* (the server's clock starts at 1), open throughout, not yet started
ExamPeriods == {<<0, 0>>, <<0, MaxTime>>, <<MaxTime, MaxTime>>}

\* the lists whose entries all name a question of exam 1
ValidBatches == {b \in Batches : \A k \in DOMAIN b : b[k].questionId \in DOMAIN InitQuestions}

\* any period and status of the exam row (exam.startTime and exam.endTime are
\* what a client would load); no exam page is open
InitAnytime ==
    /\ EmptyStore(MaxRequestsAnytime, MaxEntriesAnytime, 0)
    /\ NoStore
    /\ page = "none"
    /\ clock = 0
    /\ \E period \in ExamPeriods : examStart = period[1] /\ examEnd = period[2]
    /\ exam = FALSE
    /\ timeRemaining = NULL
    /\ intervalRef = FALSE
    /\ showTimeUpDialog = FALSE
    /\ n0 = NULL
    /\ ticks = 0
    /\ fired = 0
    /\ examStatus \in ExamStatuses
    /\ NoBrowser

NextAnytime ==
    \/ \E r \in Slots, caller \in Callers, examId \in ExamIds, shape \in Shapes :
           Start(r, caller, examId, shape)
    \/ \E r \in Slots : Authorize(r)
    \/ \E r \in Slots : GetExam(r)
    \/ \E r \in Slots : GetSubmissionsByExam(r)
    \/ \E r \in Slots, items \in ValidBatches \cup {<<>>} : GetQuestionsByExam(r, items)
    \/ \E r \in Slots : CreateSubmission(r)
    \/ \E r \in Slots : SaveAnswer(r)
    \/ \E r \in Slots : UpdateSubmission(r)

\* submit requests with lists of known questions, for any period and status
\* of the exam
SpecAnytime == InitAnytime /\ [][NextAnytime]_vars

InitAnswers == ServerInit(MaxRequestsAnswers, MaxEntriesAnswers, 0)

\* ids a submissions row can have, and one more
SubmissionIds == 1..(MaxRequestsAnswers + 1)

NextAnswers ==
    \/ \E r \in Slots, caller \in Classmates, shape \in Shapes : Start(r, caller, 1, shape)
    \/ SubmitSteps
    \/ \E caller \in {Anonymous} \cup DOMAIN Users, id \in SubmissionIds : ReadAnswers(caller, id)

\* submit requests of the classmates and reads of a submission's answers by any caller
SpecAnswers == InitAnswers /\ [][NextAnswers]_vars

\* the student has no request in flight and no Submission for exam 1
FirstRequest(caller) ==
    /\ \A r \in Slots : req[r].pc \notin {"idle", "done"} => req[r].caller # caller
    /\ StudentSubmissions(getSubmissionsByExam(1), caller) = {}

\* a classmate without a Submission sends a submit request for exam 1
StartFirst(r, caller, shape) ==
    /\ FirstRequest(caller)
    /\ Start(r, caller, 1, shape)

NextApart ==
    \/ \E r \in Slots, caller \in Classmates, shape \in Shapes : StartFirst(r, caller, shape)
    \/ SubmitSteps

\* submit requests of two classmates, of each student one at a time and none
\* after the student has a Submission: requests overlap only across students
SpecApart == InitPair /\ [][NextApart]_vars

\* ids a questions row can have: the two initial rows and the created ones
StoredQuestionIds == 1..(2 + MaxQuestionRequests)

InitClass == ServerInit(MaxRequestsClass, MaxEntriesClass, 0)

NextClass ==
    \/ Submit
    \/ \E caller \in Callers, examId \in ExamIds \cup DOMAIN Exams : ReadExam(caller, examId)
    \/ \E caller \in Callers, examId \in ExamIds \cup DOMAIN Exams : ReadQuestions(caller, examId)

\* submit requests and reads of exams and questions, by any caller
SpecClass == InitClass /\ [][NextClass]_vars

InitQuestionsSpec == ServerInit(0, 0, MaxQuestionRequests)

\* the question requests of any caller: update, create, delete
NextQuestions ==
    \/ \E caller \in Callers, id \in StoredQuestionIds, examId \in DOMAIN Exams,
          correctAnswer \in Labels, points \in PointValues :
           UpdateQuestion(caller, id, examId, correctAnswer, points)
    \/ \E caller \in Callers, examId \in DOMAIN Exams,
          correctAnswer \in Labels, points \in PointValues :
           CreateQuestion(caller, examId, correctAnswer, points)
    \/ \E caller \in Callers, id \in StoredQuestionIds : DeleteQuestion(caller, id)

\* question management requests of the teachers
SpecQuestions == InitQuestionsSpec /\ [][NextQuestions]_vars

(* --------------- the countdown of ExamTaking (exam-taking.tsx) ---------- *)

Max(a, b) == IF a >= b THEN a ELSE b

\* the difference is not clamped at 0
InitialRemainingUnclamped(endTime, t) == (endTime - t) \div UnitsPerSecond

\* Math.max(0, Math.floor((endTime - now) / 1000))
InitialRemaining(endTime, t) == Max(0, (endTime - t) \div UnitsPerSecond)

\* startTime <= now && endTime >= now
isExamAvailable(t) == examStart <= t /\ examEnd >= t

\* Effect "initialize timer", run after a render that changed exam or
\* timeRemaining: `if (exam && !timeRemaining)` sets the countdown from the
\* clock; !timeRemaining holds of null and of 0. The value the state settles at.
InitializeTimer(hasExam, remaining, t) ==
    IF hasExam /\ (remaining = NULL \/ remaining = 0)
    THEN InitialRemaining(examEnd, t)
    ELSE remaining

\* Effect "set up timer", run after a render that changed timeRemaining: its
\* cleanup clears the interval, then a new one is set unless the countdown is
\* null. Whether an interval is active afterwards.
SetUpTimer(remaining) == remaining # NULL

\* the reference is dropped, the interval is not cleared
CleanupDroppingRef(ref, live) == live

\* The cleanup of "set up timer", run before the effect runs again and at
\* unmount: `if (intervalRef.current !== null) clearInterval(...)`. The
\* number of active intervals afterwards; the reference is null afterwards.
Cleanup(ref, live) == IF ref THEN live - 1 ELSE live

\* The effect "set up timer" after its cleanup: an interval is set if
\* SetUpTimer says so. The number of active intervals afterwards.
SetInterval(remaining, live) == IF SetUpTimer(remaining) THEN live + 1 ELSE live

\* expiry detected one second early, at prevTime <= 1
IntervalCallbackAtOne(prevTime) ==
    IF prevTime = NULL \/ prevTime <= 1
    THEN [time |-> 0, expired |-> TRUE]
    ELSE [time |-> prevTime - 1, expired |-> FALSE]

\* The updater the interval callback passes to setTimeRemaining: at null or
\* <= 0 it clears the interval, raises the time-up dialog and returns 0,
\* else it returns prevTime - 1.
IntervalCallback(prevTime) ==
    IF prevTime = NULL \/ prevTime <= 0
    THEN [time |-> 0, expired |-> TRUE]
    ELSE [time |-> prevTime - 1, expired |-> FALSE]

\* The exam query delivers its data. The render runs "initialize timer" and
\* the availability effect: an exam outside its window navigates away, which
\* unmounts the page; else the countdown is set and the next render's "set up
\* timer" starts the interval.
ExamLoaded ==
    /\ page = "mounted"
    /\ ~exam
    /\ exam' = TRUE
    /\ IF ~isExamAvailable(clock)
       THEN /\ page' = "unmounted"
            /\ UNCHANGED <<timeRemaining, intervalRef, n0, intervals>>
       ELSE /\ timeRemaining' = InitializeTimer(TRUE, timeRemaining, clock)
            /\ intervalRef' = SetUpTimer(timeRemaining')
            /\ intervals' = SetInterval(timeRemaining', Cleanup(intervalRef, intervals))
            /\ n0' = timeRemaining'
            /\ UNCHANGED page
    /\ UNCHANGED <<clock, examStart, examEnd, showTimeUpDialog, ticks, fired, serverVars, storeVars, restVars>>

\* The callback of an active interval runs, a second (or more) after the
\* interval was set. A decrement re-renders: "initialize timer" runs again
\* (and sets the countdown from the clock if it has reached 0), and "set up
\* timer" replaces the interval. At 0 the callback clears the interval and
\* raises the dialog; the countdown does not change, so no timer effect runs.
Tick(late) ==
    /\ intervals > 0
    /\ clock + UnitsPerSecond + late <= MaxClock
    /\ clock' = clock + UnitsPerSecond + late
    /\ ticks' = ticks + 1
    /\ LET cb == IntervalCallback(timeRemaining)
       IN  IF page # "mounted"
           THEN \* the state update of a component that is gone is dropped
                UNCHANGED <<timeRemaining, intervalRef, intervals, showTimeUpDialog, fired>>
           ELSE IF cb.expired
           THEN /\ timeRemaining' = cb.time
                /\ intervalRef' = IF cb.time = timeRemaining THEN FALSE ELSE SetUpTimer(cb.time)
                /\ intervals' = IF cb.time = timeRemaining
                                 THEN Cleanup(intervalRef, intervals)
                                 ELSE SetInterval(cb.time, Cleanup(intervalRef, intervals))
                /\ showTimeUpDialog' = TRUE
                /\ fired' = fired + 1
           ELSE /\ timeRemaining' = InitializeTimer(exam, cb.time, clock')
                /\ intervalRef' = SetUpTimer(timeRemaining')
                /\ intervals' = SetInterval(timeRemaining', Cleanup(intervalRef, intervals))
                /\ UNCHANGED <<showTimeUpDialog, fired>>
    /\ UNCHANGED <<page, examStart, examEnd, exam, n0, serverVars, storeVars, restVars>>

\* Time passes while no interval is set.
Pass ==
    /\ page = "mounted"
    /\ ~intervalRef
    /\ clock < MaxClock
    /\ clock' = clock + 1
    /\ UNCHANGED <<page, examStart, examEnd, exam, timeRemaining, intervalRef,
                   showTimeUpDialog, n0, ticks, fired, serverVars, storeVars, moreVars>>

\* onOpenChange of the time-up dialog: the user closes it
CloseTimeUpDialog ==
    /\ page = "mounted"
    /\ showTimeUpDialog
    /\ showTimeUpDialog' = FALSE
    /\ UNCHANGED <<page, clock, examStart, examEnd, exam, timeRemaining, intervalRef,
                   n0, ticks, fired, serverVars, storeVars, moreVars>>

\* The page is left: the cleanup of "set up timer" clears the interval.
Unmount ==
    /\ page = "mounted"
    /\ page' = "unmounted"
    /\ intervalRef' = FALSE
    /\ intervals' = Cleanup(intervalRef, intervals)
    /\ UNCHANGED <<clock, examStart, examEnd, exam, timeRemaining, showTimeUpDialog,
                   n0, ticks, fired, serverVars, storeVars, restVars>>


(* ------------- the answer store of ExamTaking (exam-taking.tsx) --------- *)

\* The ids of the question list the questions query returns for the exam, in
\* list order; currentQuestionIndex is a 0-based position in it.
PageQuestions == <<1, 2>>

Range(f) == {f[i] : i \in DOMAIN f}

\* questions[currentQuestionIndex].id
CurrentQuestionId == PageQuestions[currentQuestionIndex + 1]

\* a prior choice is kept
handleAnswerSelectKeepFirst(prev, questionId, answer) == prev @@ (questionId :> answer)

\* the updater of handleAnswerSelect: {...prev, [questionId]: answer}
handleAnswerSelect(prev, questionId, answer) == (questionId :> answer) @@ prev

\* flaggedQuestions.includes(currentQuestionIndex)
isCurrentQuestionFlagged(flagged, index) == index \in Range(flagged)

\* the index is added whether flagged or not
handleToggleFlagAlwaysAdd(flagged, index) == Append(flagged, index)

\* handleToggleFlag: filter the index out when flagged, else append it
handleToggleFlag(flagged, index) ==
    IF isCurrentQuestionFlagged(flagged, index)
    THEN SelectSeq(flagged, LAMBDA i : i # index)
    ELSE Append(flagged, index)

\* The questions query delivers its data.
QuestionsLoaded ==
    /\ page = "mounted"
    /\ ~questionsLoaded
    /\ questionsLoaded' = TRUE
    /\ UNCHANGED <<currentQuestionIndex, userAnswers, flaggedQuestions, submissionState,
                   showSubmitDialog, sent, last, clientVars, serverVars, moreVars>>

\* The student picks an option of the question shown.
HandleAnswerSelect(answer) ==
    /\ page = "mounted"
    /\ questionsLoaded
    /\ userAnswers' = handleAnswerSelect(userAnswers, CurrentQuestionId, answer)
    /\ last' = [op |-> "select", index |-> CurrentQuestionId, answer |-> answer,
                userAnswers |-> userAnswers, flaggedQuestions |-> flaggedQuestions]
    /\ UNCHANGED <<questionsLoaded, currentQuestionIndex, flaggedQuestions, submissionState,
                   showSubmitDialog, sent, clientVars, serverVars, moreVars>>

\* handleNextQuestion
HandleNextQuestion ==
    /\ page = "mounted"
    /\ questionsLoaded
    /\ currentQuestionIndex < Len(PageQuestions) - 1
    /\ currentQuestionIndex' = currentQuestionIndex + 1
    /\ UNCHANGED <<questionsLoaded, userAnswers, flaggedQuestions, submissionState,
                   showSubmitDialog, sent, last, clientVars, serverVars, moreVars>>

\* handlePrevQuestion
HandlePrevQuestion ==
    /\ page = "mounted"
    /\ currentQuestionIndex > 0
    /\ currentQuestionIndex' = currentQuestionIndex - 1
    /\ UNCHANGED <<questionsLoaded, userAnswers, flaggedQuestions, submissionState,
                   showSubmitDialog, sent, last, clientVars, serverVars, moreVars>>

\* handleToggleFlag, on the question shown
HandleToggleFlag ==
    /\ page = "mounted"
    /\ questionsLoaded
    /\ flaggedQuestions' = handleToggleFlag(flaggedQuestions, currentQuestionIndex)
    /\ last' = [op |-> "toggle", index |-> currentQuestionIndex, answer |-> "none",
                userAnswers |-> userAnswers, flaggedQuestions |-> flaggedQuestions]
    /\ UNCHANGED <<questionsLoaded, currentQuestionIndex, userAnswers, submissionState,
                   showSubmitDialog, sent, clientVars, serverVars, moreVars>>

\* the property names of the userAnswers object: the question ids as strings
KeyOf == (1 :> "1") @@ (2 :> "2") @@ (3 :> "3")

\* parseInt of a property name
parseInt(key) == CHOOSE q \in DOMAIN KeyOf : KeyOf[q] = key

RECURSIVE ObjectEntries(_)
\* Object.entries: the [key, value] pairs, integer keys in ascending order
ObjectEntries(object) ==
    IF DOMAIN object = {} THEN <<>>
    ELSE LET q == CHOOSE x \in DOMAIN object : \A y \in DOMAIN object : x <= y
         IN  <<[key |-> KeyOf[q], value |-> object[q]]>>
             \o ObjectEntries([y \in DOMAIN object \ {q} |-> object[y]])

\* an entry for every question id there is, answered or not
formattedAnswersOfAllIds(object) ==
    [q \in DOMAIN KeyOf |->
        [questionId |-> q, answer |-> IF q \in DOMAIN object THEN object[q] ELSE "none"]]

\* Object.entries(userAnswers).map(([questionId, answer]) =>
\*     ({questionId: parseInt(questionId), answer}))
formattedAnswers(object) ==
    LET pairs == ObjectEntries(object)
    IN  [k \in DOMAIN pairs |->
            [questionId |-> parseInt(pairs[k].key), answer |-> pairs[k].value]]

\* submitExam: formats userAnswers and calls submitExamMutation.mutate
submitExam ==
    IF questionsLoaded
    THEN /\ submissionState' = "submitting"
         /\ sent' = sent + 1
         /\ pending' = pending + 1
         /\ batch' = formattedAnswers(userAnswers)
    ELSE UNCHANGED <<submissionState, sent, pending, batch>>

\* "Submit Now" of the time-up dialog: the click runs submitExam and the
\* dialog action closes the dialog.
SubmitFromTimeUpDialog ==
    /\ page = "mounted"
    /\ showTimeUpDialog
    /\ submitExam
    /\ showTimeUpDialog' = FALSE
    /\ UNCHANGED <<page, clock, examStart, examEnd, exam, timeRemaining, intervalRef,
                   n0, ticks, fired, questionsLoaded, currentQuestionIndex, userAnswers,
                   flaggedQuestions, showSubmitDialog, last, serverVars,
                   intervals, examStatus, userVars, redirect>>

\* The Submit button, enabled unless submissionState is 'submitting' and
\* reachable while no dialog covers the page: handleSubmitExam opens the
\* confirm dialog if a question has no answer, else it runs submitExam.
HandleSubmitExam ==
    /\ page = "mounted"
    /\ questionsLoaded
    /\ submissionState # "submitting"
    /\ ~showSubmitDialog
    /\ ~showTimeUpDialog
    /\ sent < MaxSent
    /\ IF Cardinality(DOMAIN userAnswers) < Len(PageQuestions)
       THEN /\ showSubmitDialog' = TRUE
            /\ UNCHANGED <<submissionState, sent, pending, batch>>
       ELSE /\ submitExam
            /\ UNCHANGED showSubmitDialog
    /\ UNCHANGED <<questionsLoaded, currentQuestionIndex, userAnswers, flaggedQuestions, last,
                   clientVars, serverVars, intervals, examStatus, userVars, redirect>>

\* "Submit Exam" of the confirm dialog: the click runs submitExam and the
\* dialog action closes the dialog.
SubmitFromConfirmDialog ==
    /\ page = "mounted"
    /\ showSubmitDialog
    /\ sent < MaxSent
    /\ submitExam
    /\ showSubmitDialog' = FALSE
    /\ UNCHANGED <<questionsLoaded, currentQuestionIndex, userAnswers, flaggedQuestions, last,
                   clientVars, serverVars, intervals, examStatus, userVars, redirect>>

\* "Cancel" of the confirm dialog
CancelSubmitDialog ==
    /\ page = "mounted"
    /\ showSubmitDialog
    /\ showSubmitDialog' = FALSE
    /\ UNCHANGED <<questionsLoaded, currentQuestionIndex, userAnswers, flaggedQuestions,
                   submissionState, sent, last, clientVars, serverVars, moreVars>>

\* The response of a submit request arrives: onSuccess sets 'success' and
\* the timeout of the redirect, onError sets 'error'. The callbacks of a page
\* that is gone do not run.
MutationSettled(ok) ==
    /\ pending > 0
    /\ pending' = pending - 1
    /\ IF page = "mounted"
       THEN /\ submissionState' = IF ok THEN "success" ELSE "error"
            /\ redirect' = (redirect \/ ok)
       ELSE UNCHANGED <<submissionState, redirect>>
    /\ UNCHANGED <<questionsLoaded, currentQuestionIndex, userAnswers, flaggedQuestions,
                   showSubmitDialog, sent, last, clientVars, serverVars,
                   intervals, examStatus, userVars, batch>>

\* The timeout set by onSuccess fires: navigate to the results page, which
\* unmounts the exam page (the cleanup of "set up timer" clears the interval).
RedirectToResults ==
    /\ page = "mounted"
    /\ redirect
    /\ redirect' = FALSE
    /\ page' = "unmounted"
    /\ intervalRef' = FALSE
    /\ intervals' = Cleanup(intervalRef, intervals)
    /\ UNCHANGED <<clock, examStart, examEnd, exam, timeRemaining, showTimeUpDialog,
                   n0, ticks, fired, serverVars, storeVars, examStatus, userVars, pending, batch>>

\* exam start times tried: already started, or starting after two clock units
StartTimes == {0, UnitsPerSecond}

\* The page has just been mounted: the first render has run, the queries are
\* loading, no effect has done anything.
InitTimer ==
    /\ EmptyStore(0, 0, 0)
    /\ NoMore
    /\ page = "mounted"
    /\ clock = 0
    /\ examStart \in StartTimes
    /\ examEnd \in 0..MaxEndTime
    /\ exam = FALSE
    /\ timeRemaining = NULL
    /\ intervalRef = FALSE
    /\ showTimeUpDialog = FALSE
    /\ n0 = NULL
    /\ ticks = 0
    /\ fired = 0
    /\ NoStore

NextTimer ==
    \/ ExamLoaded
    \/ QuestionsLoaded
    \/ SubmitFromTimeUpDialog
    \/ \E late \in 0..MaxLate : Tick(late)
    \/ Pass
    \/ CloseTimeUpDialog
    \/ Unmount

\* the exam-taking page from mount on
SpecTimer == InitTimer /\ [][NextTimer]_vars

\* The page has been mounted and the exam is running; the store is empty.
InitStore ==
    /\ EmptyStore(0, 0, 0)
    /\ NoMore
    /\ NoStore
    /\ page = "mounted"
    /\ clock = 0
    /\ examStart = 0
    /\ examEnd = MaxEndTime
    /\ exam = FALSE
    /\ timeRemaining = NULL
    /\ intervalRef = FALSE
    /\ showTimeUpDialog = FALSE
    /\ n0 = NULL
    /\ ticks = 0
    /\ fired = 0

NextStore ==
    \/ QuestionsLoaded
    \/ \E answer \in Labels : HandleAnswerSelect(answer)
    \/ HandleNextQuestion
    \/ HandlePrevQuestion
    \/ HandleToggleFlag

\* the answer store of the exam-taking page
SpecStore == InitStore /\ [][NextStore]_vars

\* The page has been mounted for an exam that has started and ends soon.
InitSubmitting ==
    /\ EmptyStore(0, 0, 0)
    /\ NoMore
    /\ NoStore
    /\ page = "mounted"
    /\ clock = 0
    /\ examStart = 0
    /\ examEnd = MaxEndSubmitting
    /\ exam = FALSE
    /\ timeRemaining = NULL
    /\ intervalRef = FALSE
    /\ showTimeUpDialog = FALSE
    /\ n0 = NULL
    /\ ticks = 0
    /\ fired = 0

NextSubmitting ==
    \/ ExamLoaded
    \/ QuestionsLoaded
    \/ \E answer \in Labels : HandleAnswerSelect(answer)
    \/ HandleNextQuestion
    \/ HandleSubmitExam
    \/ SubmitFromConfirmDialog
    \/ CancelSubmitDialog
    \/ SubmitFromTimeUpDialog
    \/ Tick(0)
    \/ \E ok \in BOOLEAN : MutationSettled(ok)
    \/ RedirectToResults

\* the exam page from its mount to the redirect after a submit: answers, the
\* three ways to submit, the countdown, the responses
SpecSubmitting == InitSubmitting /\ [][NextSubmitting]_vars

(* ------------------------------- claims -------------------------------- *)

InFlight(r) == req[r].pc \notin {"idle", "done"}

\* handler context r takes a step of its request
Steps(r) == InFlight(r) /\ req'[r] # req[r]

\* the step ends the request of context r
Ends(r) == Steps(r) /\ req'[r].pc = "done"

ClientError(res) == res.status \in 400..499

\* what the claims say of a request, in terms of the fixed tables
IsStudent(caller) == caller \in DOMAIN Users /\ Users[caller].role = "student"
ExamExists(examId) == examId \in DOMAIN Exams
SameClass(examId, caller) == Exams[examId].class = Users[caller].class
WithoutAnswers(shape) == shape \in {"notAList", "empty"}

RECURSIVE SumPoints(_)
SumPoints(qs) ==
    IF qs = {} THEN 0
    ELSE LET q == CHOOSE x \in qs : TRUE
         IN  questions[q].points + SumPoints(qs \ {q})

\* the questions of the submission's exam with a stored answer row marked correct
CorrectlyAnswered(s) ==
    {q \in DOMAIN questions :
        /\ questions[q].examId = submissions[s].examId
        /\ \E a \in DOMAIN answers :
               /\ answers[a].submissionId = s
               /\ answers[a].questionId = q
               /\ answers[a].isCorrect}

\* C1: every completed submission's score is the sum of the points of the
\* exam's questions whose stored answer row for it is marked correct.
C1_ScoreIsSumOfCorrect ==
    \A s \in DOMAIN submissions :
        submissions[s].status = "completed"
            => submissions[s].score = SumPoints(CorrectlyAnswered(s))

\* C2 as claimed: a row's isCorrect compares the chosen label with the label
\* stored for the question at the moment the row is written.
C2_GradedAgainstStoredLabel ==
    [][\A r \in Slots :
          (Steps(r) /\ answers' # answers) =>
              LET row == answers'[Len(answers')]
              IN  row.isCorrect =
                      (row.answer = questions[row.questionId].correctAnswer)]_vars

\* C2 as amended: a row's isCorrect compares the chosen label with the label
\* the question had in the list the request loaded before grading; the two
\* readings agree whenever the stored label is still the loaded one.
C2_GradedAgainstLoadedLabel ==
    [][\A r \in Slots :
          (Steps(r) /\ answers' # answers) =>
              LET row == answers'[Len(answers')]
                  loaded == req[r].questions[row.questionId].correctAnswer
              IN  /\ Len(answers') = Len(answers) + 1
                  /\ row.submissionId = req[r].submission
                  /\ row.questionId = Head(req[r].rest).questionId
                  /\ row.answer = Head(req[r].rest).answer
                  /\ row.isCorrect = (row.answer = loaded)
                  /\ loaded = questions[row.questionId].correctAnswer
                         => row.isCorrect =
                                (row.answer = questions[row.questionId].correctAnswer)]_vars

\* C2's case: a request has written a row after the teacher changed a question
\* it had already loaded.
C2_Witness ==
    \E r \in Slots :
        /\ req[r].pc = "updateSubmission"
        /\ req[r].questions # getQuestionsByExam(req[r].examId)
        /\ \E a \in DOMAIN answers :
               /\ answers[a].submissionId = req[r].submission
               /\ answers[a].isCorrect #
                      (answers[a].answer = questions[answers[a].questionId].correctAnswer)

\* C3: a request without answers (missing, not a list, empty) writes no
\* Submission and no Answer row and ends with a client error.
C3_NoAnswersNoWrites ==
    [][\A r \in Slots :
          (Steps(r) /\ WithoutAnswers(req[r].shape)) =>
              /\ submissions' = submissions
              /\ answers' = answers
              /\ req'[r].pc \in {"getExam", "getSubmissionsByExam", "getQuestionsByExam", "done"}
              /\ Ends(r) => ClientError(req'[r].res)]_vars

\* C3's case: an eligible student's request with an empty list was rejected for
\* it, while the student's earlier request had left a submission in progress.
C3_Witness ==
    \E r \in Slots :
        /\ req[r].pc = "done"
        /\ req[r].shape = "empty"
        /\ req[r].res = [status |-> 400, message |-> "No answers provided"]
        /\ Len(submissions) = 1
        /\ submissions[1].status = "in_progress"
        /\ Len(answers) = 1

\* C4: once a student has a completed submission for an exam, a request the
\* student sends later for that exam is rejected, writes no Answer row and
\* leaves every completed submission of (exam, student) as it is.
C4_LaterRequestRejected ==
    [][\A r \in Slots :
          (Steps(r) /\ req[r].laterThanCompleted) =>
              /\ answers' = answers
              /\ \A s \in DOMAIN submissions :
                     (/\ submissions[s].examId = req[r].examId
                      /\ submissions[s].userId = req[r].caller
                      /\ submissions[s].status = "completed")
                         => submissions'[s] = submissions[s]
              /\ Ends(r) => ClientError(req'[r].res)]_vars

\* C5: completed is terminal: no step writes the status, score or end time of
\* a completed submission.
C5_CompletedIsTerminal ==
    [][\A s \in DOMAIN submissions :
          submissions[s].status = "completed" => submissions'[s] = submissions[s]]_vars

\* C6: at most one submission row per (exam, student).
C6_OneSubmissionPerPair ==
    \A s1, s2 \in DOMAIN submissions :
        (/\ submissions[s1].examId = submissions[s2].examId
         /\ submissions[s1].userId = submissions[s2].userId) => s1 = s2

\* C7: at most one answer row per (submission, question).
C7_OneAnswerPerQuestion ==
    \A a1, a2 \in DOMAIN answers :
        (/\ answers[a1].submissionId = answers[a2].submissionId
         /\ answers[a1].questionId = answers[a2].questionId) => a1 = a2

\* C8: a request whose list names a question the exam does not have never
\* sets the status, score or end time of a submission, and ends with a client
\* error.
C8_UnknownQuestionRejects ==
    [][\A r \in Slots :
          (Steps(r) /\ (req[r].unknownId \/ (InFlight(r)' /\ req'[r].unknownId))) =>
              /\ \A s \in DOMAIN submissions : submissions'[s] = submissions[s]
              /\ \A s \in DOMAIN submissions' \ DOMAIN submissions :
                     /\ submissions'[s].status = "in_progress"
                     /\ submissions'[s].score = NULL
                     /\ submissions'[s].endTime = NULL
              /\ req'[r].pc # "updateSubmission"
              /\ Ends(r) => req'[r].res = [status |-> 400, message |-> "Question not found"]]_vars

\* C8's case: a request was rejected for an unknown question id after it had
\* graded an entry; its submission is in progress, without score and end time.
C8_Witness ==
    \E r \in Slots :
        /\ req[r].pc = "done"
        /\ req[r].res = [status |-> 400, message |-> "Question not found"]
        /\ Len(answers) >= 1
        /\ Len(submissions) = 1
        /\ submissions[1].status = "in_progress"
        /\ submissions[1].score = NULL
        /\ submissions[1].endTime = NULL

\* the response the checks give a request that fails one, in their order; the
\* fourth check is the handler's own look at the row it found
FirstFailure(h) ==
    IF ~IsStudent(h.caller) THEN [status |-> 403, message |-> "Access denied"]
    ELSE IF ~ExamExists(h.examId) THEN [status |-> 404, message |-> "Exam not found"]
    ELSE IF ~SameClass(h.examId, h.caller) THEN [status |-> 403, message |-> "Access denied"]
    ELSE IF h.pc = "getSubmissionsByExam" THEN [status |-> 400, message |-> "Exam already submitted"]
    ELSE IF WithoutAnswers(h.shape) THEN [status |-> 400, message |-> "No answers provided"]
    ELSE NoRes

\* the request of context r fails one of the five checks
FailsACheck(h) ==
    \/ ~IsStudent(h.caller)
    \/ ~ExamExists(h.examId)
    \/ ~SameClass(h.examId, h.caller)
    \/ WithoutAnswers(h.shape)

C10_ExpiresAtNthTick ==
    (n0 # NULL /\ n0 > 0) =>
        /\ ticks < n0 => fired = 0
        /\ ticks >= n0 => timeRemaining = 0 /\ fired = 1

\* C10 as amended: a countdown started at N > 0 shows N - k after k <= N
\* callbacks, so 0 after N, with no dialog raised yet and the interval still
\* set; callback N + 1 raises the dialog and clears the interval, so there is
\* no further callback and the dialog is raised once in all.
C10_ExpiresAtTickAfterZero ==
    (n0 # NULL /\ n0 > 0) =>
        /\ ticks <= n0 + 1
        /\ ticks <= n0 =>
               /\ timeRemaining = n0 - ticks
               /\ fired = 0
               /\ ~showTimeUpDialog
               /\ page = "mounted" => intervalRef
        /\ ticks = n0 + 1 =>
               /\ timeRemaining = 0
               /\ fired = 1
               /\ ~intervalRef

\* C10's case: a countdown of at least two seconds has run out, the dialog
\* was raised by callback N + 1 and the user has closed it.
C10_Witness ==
    /\ n0 # NULL
    /\ n0 >= 2
    /\ ticks = n0 + 1
    /\ fired = 1
    /\ ~showTimeUpDialog
    /\ page = "mounted"

\* C11: when the exam data arrives after the exam's end time (no tick has
\* run), the remaining time is 0 and the time-up dialog is raised.
C11_ExpiredOnOpen ==
    (exam /\ ticks = 0 /\ examEnd < clock) => (timeRemaining = 0 /\ showTimeUpDialog)

\* C12: the countdown is first set to max(0, endTime - now) in whole seconds,
\* is never negative, and no step of the page increases it or unsets it.
C12_RemainingNeverNegativeNorIncreasing ==
    [][/\ (timeRemaining = NULL /\ timeRemaining' # NULL) =>
              timeRemaining' = (IF examEnd - clock' > 0
                                THEN (examEnd - clock') \div UnitsPerSecond
                                ELSE 0)
       /\ timeRemaining' # NULL => timeRemaining' >= 0
       /\ timeRemaining # NULL => (timeRemaining' # NULL /\ timeRemaining' <= timeRemaining)
      ]_vars

\* C12 witness: a countdown that started above 0 has reached 0 at a time later
\* than the end time, where the re-initialisation computed from a negative
\* difference.
C12_Witness ==
    /\ page = "mounted"
    /\ n0 # NULL /\ n0 > 0
    /\ timeRemaining = 0
    /\ ticks >= n0
    /\ clock > examEnd

\* C13: the step at which the countdown's expiry is detected sends the submit
\* request (once), with no user action in between.
C13_ForcedSubmitAtExpiry ==
    [][fired' > fired => sent' = sent + 1]_vars

\* C14: a select of (questionId, label) leaves label stored for questionId
\* whatever was stored, leaves every other question's choice and the flagged
\* list as they were, and repeating the select just made changes nothing.
C14_SelectOverwritesIdempotent ==
    [][(last'.op = "select" /\ last' # last) =>
          LET q == last'.index
              a == last'.answer
          IN  /\ q \in DOMAIN userAnswers' /\ userAnswers'[q] = a
              /\ DOMAIN userAnswers' = DOMAIN userAnswers \cup {q}
              /\ \A o \in DOMAIN userAnswers \ {q} : userAnswers'[o] = userAnswers[o]
              /\ flaggedQuestions' = flaggedQuestions
              /\ (last.op = "select" /\ last.index = q /\ last.answer = a) =>
                     userAnswers' = userAnswers
      ]_vars

\* C14 witness: a select has replaced a different stored choice while another
\* question is answered and a question is flagged.
C14_Witness ==
    /\ last.op = "select"
    /\ last.index \in DOMAIN last.userAnswers
    /\ last.userAnswers[last.index] # last.answer
    /\ userAnswers[last.index] = last.answer
    /\ DOMAIN userAnswers # {last.index}
    /\ flaggedQuestions # <<>>

\* C15: a toggle of an index adds it to the flagged list when absent and
\* removes it when present, the list never holds an index twice, the stored
\* answers stay, and a toggle right after a toggle of the same index leaves
\* the flagged set as it was before the two.
C15_ToggleFlagIsInvolution ==
    [][(last'.op = "toggle" /\ last' # last) =>
          LET i == last'.index
              pre == Range(flaggedQuestions)
              post == Range(flaggedQuestions')
          IN  /\ i \in pre => post = pre \ {i}
              /\ i \notin pre => post = pre \cup {i}
              /\ Cardinality(post) = Len(flaggedQuestions')
              /\ userAnswers' = userAnswers
              /\ (last.op = "toggle" /\ last.index = i) =>
                     post = Range(last.flaggedQuestions)
      ]_vars

\* C15 witness: a toggle has removed an index from a list of two flags, right
\* after the toggle that added it, while an answer is stored.
C15_Witness ==
    /\ last.op = "toggle"
    /\ Len(last.flaggedQuestions) = 2
    /\ last.index = last.flaggedQuestions[2]
    /\ Len(flaggedQuestions) = 1
    /\ userAnswers # <<>>

\* the rows of an exam's questions, by id
QuestionsOf(examId) == [q \in {i \in DOMAIN questions : questions[i].examId = examId} |-> questions[q]]

\* the question request of this caller is the step taken
QuestionRequestOf(caller) ==
    \/ \E id \in DOMAIN questions, examId \in DOMAIN Exams,
          correctAnswer \in Labels, points \in PointValues :
           UpdateQuestion(caller, id, examId, correctAnswer, points)
    \/ \E examId \in DOMAIN Exams, correctAnswer \in Labels, points \in PointValues :
           CreateQuestion(caller, examId, correctAnswer, points)
    \/ \E id \in DOMAIN questions : DeleteQuestion(caller, id)

\* C16: a question request that changes the questions of an exam (their set
\* or a stored field) is a request of the teacher who created that exam.
C16_OnlyOwnerChangesQuestions ==
    [][\A caller \in Callers, e \in DOMAIN Exams :
          (QuestionRequestOf(caller) /\ QuestionsOf(e)' # QuestionsOf(e)) =>
              caller = Exams[e].createdById
      ]_vars

\* a submit request that has passed the class check
PastClassCheck(h) ==
    \/ h.pc \in {"getSubmissionsByExam", "getQuestionsByExam", "createSubmission",
                 "saveAnswer", "updateSubmission"}
    \/ h.pc = "done" /\ h.res.status \notin {403, 404}

\* C17: a student's read of an exam or of its questions succeeds only for an
\* exam of the student's class, a submit request gets past the class check
\* only for a student of the exam's class, and every Submission row is of a
\* student and an exam of that student's class.
C17_StudentsOnlyOwnClass ==
    /\ (lastRead.status = 200 /\ IsStudent(lastRead.caller)) =>
           (ExamExists(lastRead.examId) /\ SameClass(lastRead.examId, lastRead.caller))
    /\ \A r \in Slots :
           PastClassCheck(req[r]) =>
               /\ IsStudent(req[r].caller)
               /\ ExamExists(req[r].examId)
               /\ SameClass(req[r].examId, req[r].caller)
    /\ \A s \in DOMAIN submissions :
           /\ IsStudent(submissions[s].userId)
           /\ ExamExists(submissions[s].examId)
           /\ SameClass(submissions[s].examId, submissions[s].userId)

\* C17 witness: a student of another class has been refused the questions of
\* an exam that a student of its class has completed a submission for.
C17_Witness ==
    /\ lastRead.kind = "questions"
    /\ IsStudent(lastRead.caller)
    /\ lastRead.status = 403
    /\ \E s \in DOMAIN submissions :
           /\ submissions[s].examId = lastRead.examId
           /\ submissions[s].status = "completed"

\* the entries of a list before the first one that names no question of qs
RECURSIVE BeforeFirstUnknown(_, _)
BeforeFirstUnknown(items, qs) ==
    IF items = <<>> \/ Head(items).questionId \notin DOMAIN qs
    THEN <<>>
    ELSE <<Head(items)>> \o BeforeFirstUnknown(Tail(items), qs)

\* the answer rows a request has written once its step is taken, oldest first
WrittenAfterStep(r) ==
    IF answers' # answers THEN Append(req[r].written, Len(answers')) ELSE req[r].written

\* the submission a request grades into once its step is taken
SubmissionAfterStep(r) ==
    IF req[r].submission # 0 THEN req[r].submission ELSE Len(submissions')

\* C18: a request's k-th answer row is its list's k-th entry and rows get ids
\* in that order; a request rejected for an unknown question id has written
\* exactly the entries before the first unknown id, and its rows and its
\* Submission are still stored after the rejection; no step removes a row.
C18_GradedInListOrderNoRollback ==
    [][/\ \A r \in Slots :
              (Steps(r) /\ answers' # answers) =>
                  LET k == Len(req[r].written) + 1
                      row == answers'[Len(answers')]
                  IN  /\ Len(answers') = Len(answers) + 1
                      /\ k <= Len(req[r].items)
                      /\ row.questionId = req[r].items[k].questionId
                      /\ row.answer = req[r].items[k].answer
                      /\ row.submissionId = req[r].submission
                      /\ \A j \in DOMAIN req[r].written : req[r].written[j] < Len(answers')
       /\ \A r \in Slots :
              (Ends(r) /\ req'[r].res = [status |-> 400, message |-> "Question not found"]) =>
                  LET w == WrittenAfterStep(r)
                      before == BeforeFirstUnknown(req[r].items, req[r].questions)
                  IN  /\ Len(w) = Len(before)
                      /\ \A k \in DOMAIN w :
                             /\ w[k] \in DOMAIN answers'
                             /\ answers'[w[k]].questionId = before[k].questionId
                             /\ answers'[w[k]].answer = before[k].answer
                             /\ answers'[w[k]].submissionId = SubmissionAfterStep(r)
                      /\ SubmissionAfterStep(r) \in DOMAIN submissions'
       /\ Len(answers') >= Len(answers)
       /\ \A a \in DOMAIN answers : answers'[a] = answers[a]
       /\ Len(submissions') >= Len(submissions)
      ]_vars

\* C18 witness: a request has been rejected for an unknown question id after
\* writing two rows, into the Submission it created, which is in progress.
C18_Witness ==
    \E r \in Slots :
        /\ req[r].pc = "done"
        /\ req[r].res = [status |-> 400, message |-> "Question not found"]
        /\ Len(answers) = 2
        /\ answers[1].questionId # answers[2].questionId
        /\ Len(submissions) = 1
        /\ submissions[1].status = "in_progress"

\* in_progress exactly when end time and score are unset, completed exactly
\* when both are set
StatusMatchesFields(s) ==
    /\ s.status \in {"in_progress", "completed"}
    /\ s.status = "in_progress" <=> (s.endTime = NULL /\ s.score = NULL)
    /\ s.status = "completed" <=> (s.endTime # NULL /\ s.score # NULL)

\* C19: every Submission row has its status match its end time and score, and
\* the step that answers a submit with 200 has set end time (now), score (the
\* accumulated total) and status completed of the request's row together,
\* touched no other row, and returns the row as updated.
C19_StatusMatchesFieldsOneUpdate ==
    [][/\ \A s \in DOMAIN submissions' : StatusMatchesFields(submissions'[s])
       /\ \A r \in Slots :
              (Ends(r) /\ req'[r].res.status = 200) =>
                  LET id == req[r].submission
                  IN  /\ id \in DOMAIN submissions
                      /\ submissions'[id].status = "completed"
                      /\ submissions'[id].endTime = now
                      /\ submissions'[id].score = req[r].score
                      /\ submissions'[id].startTime = submissions[id].startTime
                      /\ \A o \in DOMAIN submissions \ {id} : submissions'[o] = submissions[o]
                      /\ req'[r].body = <<submissions'[id]>>
      ]_vars

\* C19 witness: a submit has been answered with a completed row of score 1
\* while another row of the table is in progress.
C19_Witness ==
    \E r \in Slots :
        /\ req[r].pc = "done"
        /\ req[r].res.status = 200
        /\ req[r].body # <<>>
        /\ req[r].body[1].status = "completed"
        /\ req[r].body[1].score = 1
        /\ \E s \in DOMAIN submissions : submissions[s].status = "in_progress"

\* some Submission row is of this exam and student
SubmissionExists(examId, userId) ==
    \E s \in DOMAIN submissions :
        submissions[s].examId = examId /\ submissions[s].userId = userId

\* C20: a submit request inserts a Submission row only when none exists for
\* its (exam, student), and the row then has start time now and status
\* in_progress; a request that found an in_progress row inserts none and
\* leaves the id and start time of every row as they were.
C20_CreatesOnlyWhenNoneExists ==
    [][\A r \in Slots :
          /\ (Steps(r) /\ Len(submissions') > Len(submissions)) =>
                 /\ ~SubmissionExists(req[r].examId, req[r].caller)
                 /\ Len(submissions') = Len(submissions) + 1
                 /\ submissions'[Len(submissions')] =
                        [examId |-> req[r].examId, userId |-> req[r].caller,
                         startTime |-> now, endTime |-> NULL, score |-> NULL,
                         status |-> "in_progress"]
          /\ (Steps(r) /\ req[r].pc = "getQuestionsByExam" /\ ~WithoutAnswers(req[r].shape)
                /\ ~SubmissionExists(req[r].examId, req[r].caller)) =>
                 req'[r].pc = "createSubmission"
          /\ (Steps(r) /\ req[r].studentSubmission # NoSub) =>
                 /\ Len(submissions') = Len(submissions)
                 /\ \A s \in DOMAIN submissions :
                        submissions'[s].startTime = submissions[s].startTime
      ]_vars

(* ---------------------- the frame of a submit request ------------------ *)

\* the rows of seq are the first rows of seq2, unchanged
IsPrefix(seq, seq2) ==
    /\ Len(seq) <= Len(seq2)
    /\ \A k \in DOMAIN seq : seq2[k] = seq[k]

\* the submissions rows that a step inserted or changed
TouchedSubmissions ==
    {s \in DOMAIN submissions' : s \notin DOMAIN submissions \/ submissions'[s] # submissions[s]}

\* C21: a step of a submit request only inserts answers rows (of a
\* Submission of the caller) and inserts or updates a Submission of the caller
\* for the addressed exam: the rows answers had stay as they were, no
\* submissions row goes or changes its exam or student, and questions and the
\* Submissions of the other students are unchanged (users and exams are
\* tables no storage call of the handler writes).
C21_SubmitFrame ==
    [][\A r \in Slots : Steps(r) =>
          /\ questions' = questions
          /\ IsPrefix(answers, answers')
          /\ \A k \in DOMAIN answers' \ DOMAIN answers :
                 /\ answers'[k].submissionId \in DOMAIN submissions'
                 /\ submissions'[answers'[k].submissionId].userId = req[r].caller
                 /\ submissions'[answers'[k].submissionId].examId = req[r].examId
          /\ DOMAIN submissions \subseteq DOMAIN submissions'
          /\ \A s \in DOMAIN submissions :
                 /\ submissions'[s].userId = submissions[s].userId
                 /\ submissions'[s].examId = submissions[s].examId
          /\ \A s \in TouchedSubmissions :
                 /\ submissions'[s].userId = req[r].caller
                 /\ submissions'[s].examId = req[r].examId]_vars

\* both classmates have a completed Submission with an answer of the same question
C21_Witness ==
    \E s, t \in DOMAIN submissions, k, m \in DOMAIN answers :
        /\ submissions[s].userId = 2 /\ submissions[s].status = "completed"
        /\ submissions[t].userId = 5 /\ submissions[t].status = "completed"
        /\ answers[k].submissionId = s
        /\ answers[m].submissionId = t
        /\ answers[k].questionId = answers[m].questionId

(* ------------- submit requests of different students, interleaved ------ *)

\* the student's Submissions (status, score) and Answer rows (question,
\* answer, correctness), each oldest first
Outcome(userId) ==
    LET subs == SelectSeq(submissions, LAMBDA row : row.userId = userId)
        rows == SelectSeq(answers,
                          LAMBDA row : submissions[row.submissionId].userId = userId)
    IN  [submissions |-> [k \in DOMAIN subs |->
                             [status |-> subs[k].status, score |-> subs[k].score]],
         answers |-> [k \in DOMAIN rows |->
                         [questionId |-> rows[k].questionId, answer |-> rows[k].answer,
                          isCorrect |-> rows[k].isCorrect]]]

RECURSIVE PointsOf(_)
\* the points of the entries answered as the initial questions say
PointsOf(items) ==
    IF items = <<>> THEN 0
    ELSE (IF InitQuestions[Head(items).questionId].correctAnswer = Head(items).answer
          THEN InitQuestions[Head(items).questionId].points ELSE 0)
         + PointsOf(Tail(items))

\* what a request with this list leaves for a student without a Submission
\* when no other request runs beside it: the entries before the first one
\* naming no question of the exam are stored; the Submission is completed with
\* the points of the correct ones if every entry names a question, else it
\* stays in progress without a score
Alone(items) ==
    LET graded == BeforeFirstUnknown(items, [q \in {1, 2} |-> InitQuestions[q]])
    IN  [submissions |->
             <<IF Len(graded) = Len(items)
               THEN [status |-> "completed", score |-> PointsOf(items)]
               ELSE [status |-> "in_progress", score |-> NULL]>>,
         answers |-> [k \in DOMAIN graded |->
                         [questionId |-> graded[k].questionId,
                          answer |-> graded[k].answer,
                          isCorrect |-> InitQuestions[graded[k].questionId].correctAnswer
                                            = graded[k].answer]]]

\* C22: requests of different students for one exam are independent. Whatever
\* the interleaving of their storage operations, a step of one student's
\* request leaves the other student's Submissions and Answer rows as they
\* were, and when a request ends the student's Submission (status, score) and
\* Answer rows are those the request produces running alone, so the same as
\* with the requests one after the other in either order.
C22_StudentsIndependent ==
    [][\A r \in Slots :
          /\ Steps(r) =>
                 \A other \in Classmates \ {req[r].caller} : Outcome(other)' = Outcome(other)
          /\ Ends(r) =>
                 Outcome(req[r].caller)' =
                     IF req'[r].res.message \in {"updatedSubmission", "Question not found"}
                     THEN Alone(req[r].items)
                     ELSE [submissions |-> <<>>, answers |-> <<>>]]_vars

\* one student's request has ended with 200 while the other student's
\* request is between its answer rows
C22_Witness ==
    \E r, r2 \in Slots :
        /\ req[r].pc = "done" /\ req[r].res.status = 200
        /\ req[r2].pc = "saveAnswer" /\ req[r2].written # <<>>
        /\ req[r2].caller # req[r].caller
        /\ Outcome(req[r].caller).answers # <<>>

(* ------------------ the exam's period and status at submit ------------- *)

\* C23: whatever the current time and the exam's start time, end time and
\* status, a submit request of a student of the exam's class with a non-empty
\* list of known questions is accepted and completed: it ends with 200 and
\* the completed Submission, unless a completed Submission of the student
\* for the exam is there already.
C23_AcceptedWhateverTheTime ==
    [][\A r \in Slots :
          (/\ Ends(r)
           /\ IsStudent(req[r].caller)
           /\ ExamExists(req[r].examId)
           /\ SameClass(req[r].examId, req[r].caller)
           /\ req[r].shape = "list") =>
              \/ /\ req'[r].res.status = 200
                 /\ req'[r].body # <<>>
                 /\ req'[r].body[1].status = "completed"
                 /\ req'[r].body[1].userId = req[r].caller
              \/ /\ req'[r].res = [status |-> 400, message |-> "Exam already submitted"]
                 /\ CompletedExists(req[r].examId, req[r].caller)]_vars

\* a request that arrived after the end time of an exam whose status is not
\* active was accepted and completed
C23_Witness ==
    \E r \in Slots :
        /\ examEnd < 1
        /\ examStatus = "completed"
        /\ req[r].pc = "done"
        /\ req[r].res.status = 200
        /\ \E s \in DOMAIN submissions :
               submissions[s].status = "completed" /\ submissions[s].startTime > examEnd

(* ----------------------- the timer after unmount ----------------------- *)

\* C24: at most one interval of the exam page is active at any moment; once
\* the page is no longer displayed none is, and from then on no timer
\* callback runs, the remaining time does not change and the time-up dialog
\* is not raised.
C24_NoTimerAfterUnmount ==
    [][/\ intervals' <= 1
       /\ page' = "unmounted" => intervals' = 0
       /\ page = "unmounted" =>
              /\ ticks' = ticks
              /\ timeRemaining' = timeRemaining
              /\ fired' = fired
              /\ showTimeUpDialog' = showTimeUpDialog]_vars

\* the page was left while its countdown was running, after a tick
C24_Witness ==
    /\ page = "unmounted"
    /\ ticks > 0
    /\ timeRemaining # NULL
    /\ timeRemaining > 0
    /\ intervals = 0

(* ------------------ an exam that expires without a submit -------------- *)

\* C25: once the student (user 2) has opened exam 1 and the countdown has
\* expired while no submit request has reached the server, the student's
\* Submission for the exam exists with status in_progress. (The claim's other
\* half, that only a successful submit request of the student changes a
\* Submission's status, is about requests that do reach the server.)
C25_InProgressAfterExpiry ==
    (exam /\ fired > 0 /\ started = 0) =>
        \E s \in DOMAIN submissions :
            /\ submissions[s].examId = 1
            /\ submissions[s].userId = 2
            /\ submissions[s].status = "in_progress"

(* ------------------- who is given a submission's answers --------------- *)

\* the caller is the submission's student, or the teacher who created its exam
MayReadAnswers(caller, id) ==
    /\ caller \in DOMAIN Users
    /\ id \in DOMAIN submissions
    /\ \/ submissions[id].userId = caller
       \/ /\ Users[caller].role = "teacher"
          /\ ExamExists(submissions[id].examId)
          /\ Exams[submissions[id].examId].createdById = caller

C27_DefaultPasswordLogsIn ==
    (/\ lastLogin.username \in DOMAIN accounts
     /\ accounts[lastLogin.username].defaulted
     /\ lastLogin.password = accounts[lastLogin.username].studentId) =>
        lastLogin.status = 200

(* --------------------- the page's submit requests ---------------------- *)

\* C28: the exam page never has two submit requests in flight: from the
\* moment one is sent until its response arrives, neither the Submit button
\* nor the action of the confirm dialog or of the time-up dialog sends another.
C28_OneSubmitInFlight == pending <= 1

\* the question ids of a list of entries
QuestionIdsOf(entryList) == {entryList[k].questionId : k \in DOMAIN entryList}

\* C29: the list the page sends on submit has at most one entry per question
\* id and names only questions loaded for the exam; an answer, once chosen,
\* is replaced but never removed, so the number of answered questions never
\* decreases, and it never exceeds the number of questions.
C29_BatchOfLoadedQuestions ==
    [][/\ Cardinality(QuestionIdsOf(batch')) = Len(batch')
       /\ QuestionIdsOf(batch') \subseteq Range(PageQuestions)
       /\ DOMAIN userAnswers \subseteq DOMAIN userAnswers'
       /\ Cardinality(DOMAIN userAnswers') >= Cardinality(DOMAIN userAnswers)
       /\ Cardinality(DOMAIN userAnswers') <= Len(PageQuestions)]_vars

\* a list with an entry for each question was sent after the answer of
\* question 1 had been replaced
C29_Witness ==
    /\ sent > 0
    /\ Len(batch) = Len(PageQuestions)
    /\ last.op = "select"
    /\ last.index \in DOMAIN last.userAnswers
    /\ last.userAnswers[last.index] # last.answer

(* ------------------ what a student learns before the end --------------- *)

\* the question rows as they are in the exam that differs in the correct labels
Relabelled(rows, labels) ==
    [q \in DOMAIN rows |-> [rows[q] EXCEPT !.correctAnswer = labels[q]]]

\* C30: a student cannot obtain the correct option label of a question before
\* the student's Submission for the exam is completed: the response to a
\* student's read of the exam's questions, given while the student has no
\* completed Submission for the exam, is the same for the exam whose
\* questions differ only in their correct labels, whatever those are.
C30_NoCorrectLabelBeforeCompletion ==
    [][(/\ lastRead' # lastRead
        /\ lastRead'.kind = "questions"
        /\ IsStudent(lastRead'.caller)
        /\ ~CompletedExists(lastRead'.examId, lastRead'.caller)) =>
           \A labels \in [DOMAIN lastRead'.body -> Labels] :
               lastRead'.body = Relabelled(lastRead'.body, labels)]_vars

====
